---- MODULE Spec2Model ----
(***************************************************************************)
(* One run of one of the three Daytona operator scripts:                   *)
(*   "create"  daytona-create-and-preview.py                               *)
(*   "lookup"  get-preview-link.py                                         *)
(*   "deploy"  scaffold-files/daytona-deploy.py                            *)
(* The sandbox provider (daytona_sdk) is the environment: every call to it *)
(* either returns or raises, and what it returns is chosen by the          *)
(* provider.  Every provider call is appended to `calls`, every message    *)
(* written to the console is appended to `stdout` as a tag.                *)
(***************************************************************************)
EXTENDS Integers, Sequences, FiniteSets, TLC

VARIABLES
    script,        \* which script this process runs
    argv,          \* positional arguments, sys.argv[1:]
    cwd0,          \* directory the process was started in
    pc,            \* position of the process
    env,           \* os.environ
    fs,            \* file system: current directory and the directories holding .git
    api_key,       \* api_key / API_KEY
    repo_url,      \* repo_url handed to deploy_scaffold_to_daytona
    attempt,       \* create script: which try block is executing
    sandbox,       \* the local `sandbox` (a sandbox id, NoSandbox when unbound)
    preview_info,  \* the local `preview_info` (<<>> when unbound)
    found_git,     \* create_from_current_directory: found_git
    git_root,      \* create_from_current_directory: git_root
    ret,           \* value returned by main / by the deploy functions (<<>> is None)
    exit_code,     \* exit status of the process (NotExited while running)
    uncaught,      \* an exception left the script uncaught
    stdout,        \* console messages, as tags
    calls,         \* provider calls made, in order
    nextId,        \* provider: id of the next sandbox it creates
    links          \* provider: preview links it has handed out

vars == <<script, argv, cwd0, pc, env, fs, api_key, repo_url, attempt, sandbox,
          preview_info, found_git, git_root, ret, exit_code, uncaught, stdout,
          calls, nextId, links>>

-----------------------------------------------------------------------------
(* Bounds and program constants *)

MaxDepth == 6

Port == 3000

ParentLevels == 5

Unset == "<unset>"

NoSandbox == 0

NotExited == -1

ExistingSandboxId == 100

HardcodedKey == "dtn_48917f47a7ccd44c830b8a291e336938309a328b1748c77a3fdde9872bf0b45b"

ApiUrl == "https://api.daytona.io"

ArgValues == {"", "dtn_arg", "https://github.com/pria-cloud/agents.git"}

EnvKeyValues == {Unset, "", "dtn_env"}

RemoteUrls == {"https://github.com/pria-cloud/scaffold.git"}

Urls == {"https://3000-a.proxy.daytona.work", "https://3000-b.proxy.daytona.work"}

Tokens == {"tok-a", "tok-b"}

ExitCodes == {0, 1}

-----------------------------------------------------------------------------
(* Helpers *)

\* Falsy with the empty string taken for a key.
FalsyNoneOnly(s) == s = Unset

\* Python truthiness of an optional string: None and '' are falsy.
Falsy(s) == s = Unset \/ s = ""

\* os.environ as the scripts see it at start-up.
InitialEnv(key) ==
    [DAYTONA_API_KEY |-> key, DAYTONA_API_URL |-> Unset,
     DAYTONA_TARGET |-> Unset, PYTHONHTTPSVERIFY |-> Unset]

\* One provider call as logged: the method, the sandbox it is made on, its
\* argument, the port (get_preview_link), the background flag (process.run),
\* the API key and TLS setting in the environment when it is made, and
\* whether it returned ("ok") or raised ("raise"), with the exit code it
\* reported (process.run).
Call(op, sb, arg, port, bg, out, rc, e) ==
    [op |-> op, sb |-> sb, arg |-> arg, port |-> port, bg |-> bg,
     out |-> out, rc |-> rc,
     key |-> e.DAYTONA_API_KEY, verify |-> e.PYTHONHTTPSVERIFY]

Outcomes == {"ok", "raise"}

\* ReturnRecord with the link's two fields exchanged.
ReturnRecordSwapped(sb, info) ==
    [sandbox_id |-> sb, url |-> info.token, token |-> info.url]

\* The record main() returns.
ReturnRecord(sb, info) ==
    [sandbox_id |-> sb, url |-> info.url, token |-> info.token]

\* sys.exit(code) / falling off the end of the script.
Exit(code) ==
    /\ exit_code' = code
    /\ pc' = "done"

-----------------------------------------------------------------------------
(* daytona-create-and-preview.py *)

\* main(), lines 16-21: the credential and the missing-credential exit.
CreateMain ==
    /\ script = "create" /\ pc = "c_main"
    /\ LET k == IF Len(argv) > 0 THEN argv[1] ELSE env.DAYTONA_API_KEY
       IN  /\ api_key' = k
           /\ IF Falsy(k)
              THEN /\ stdout' = stdout \o <<"missing_key", "usage">>
                   /\ Exit(1)
              ELSE /\ stdout' = stdout
                   /\ pc' = "c_client"
                   /\ exit_code' = exit_code
    /\ UNCHANGED <<script, argv, cwd0, env, fs, repo_url, attempt, sandbox,
                   preview_info, found_git, git_root, ret, uncaught, calls,
                   nextId, links>>

\* An exception raised by call c inside one of main()'s try blocks: in the
\* primary block control passes to the handler of line 68, in the fallback
\* block to the handler of lines 102-104.
CreateRaise(c) ==
    /\ calls' = Append(calls, c)
    /\ IF attempt = "primary"
       THEN /\ pc' = "c_fallback"
            /\ UNCHANGED <<exit_code>>
       ELSE /\ Exit(1)
    /\ UNCHANGED <<sandbox, preview_info, ret, nextId, links>>

\* What the handlers print when they are entered (lines 69 and 103).
CreateRaiseOut(so) ==
    IF attempt = "primary" THEN so \o <<"error">> ELSE so \o <<"alt_failed">>

\* Lines 24-32 (primary) and line 83 (fallback): Daytona().
CreateClient ==
    /\ script = "create" /\ pc = "c_client"
    /\ LET e  == IF attempt = "primary"
                 THEN [env EXCEPT !.DAYTONA_API_KEY = api_key,
                                  !.DAYTONA_API_URL = ApiUrl,
                                  !.DAYTONA_TARGET = "us"]
                 ELSE env
           so == IF attempt = "primary" THEN stdout \o <<"creating">> ELSE stdout
       IN  /\ env' = e
           /\ \E out \in Outcomes :
                LET c == Call("Daytona", NoSandbox, "", 0, FALSE, out, 0, e)
                IN  IF out = "ok"
                    THEN /\ calls' = Append(calls, c)
                         /\ pc' = "c_create"
                         /\ stdout' = IF attempt = "primary"
                                      THEN so \o <<"creating_sandbox">> ELSE so
                         /\ UNCHANGED <<sandbox, preview_info, ret, exit_code,
                                        nextId, links>>
                    ELSE /\ CreateRaise(c)
                         /\ stdout' = CreateRaiseOut(so)
    /\ UNCHANGED <<script, argv, cwd0, fs, api_key, repo_url, attempt,
                   found_git, git_root, uncaught>>

\* Lines 36-39 and 84-87: daytona.create().
CreateSandbox ==
    /\ script = "create" /\ pc = "c_create"
    /\ \E out \in Outcomes :
         LET c == Call("create", NoSandbox, "", 0, FALSE, out, 0, env)
         IN  IF out = "ok"
             THEN /\ calls' = Append(calls, [c EXCEPT !.sb = nextId])
                  /\ sandbox' = nextId
                  /\ nextId' = nextId + 1
                  /\ stdout' = stdout \o <<"created", "sandbox_id">>
                               \o (IF attempt = "primary" THEN <<"setting_up">> ELSE <<>>)
                  /\ pc' = "c_clone"
                  /\ UNCHANGED <<preview_info, ret, exit_code, links>>
             ELSE /\ CreateRaise(c)
                  /\ stdout' = CreateRaiseOut(stdout)
    /\ UNCHANGED <<script, argv, cwd0, env, fs, api_key, repo_url, attempt,
                   found_git, git_root, uncaught>>

\* One sandbox.process.code_run(code) of setup_sandbox, with the messages
\* printed before and after it.
CodeRun(at, code, before, after, next) ==
    /\ script = "create" /\ pc = at
    /\ \E out \in Outcomes :
         LET c == Call("code_run", sandbox, code, 0, FALSE, out, 0, env)
         IN  IF out = "ok"
             THEN /\ calls' = Append(calls, c)
                  /\ stdout' = stdout \o before \o after
                  /\ pc' = next
                  /\ UNCHANGED <<sandbox, preview_info, ret, exit_code,
                                 nextId, links>>
             ELSE /\ CreateRaise(c)
                  /\ stdout' = CreateRaiseOut(stdout \o before)
    /\ UNCHANGED <<script, argv, cwd0, env, fs, api_key, repo_url, attempt,
                   found_git, git_root, uncaught>>

\* setup_sandbox, lines 109-133: git clone in the sandbox.
SetupClone ==
    CodeRun("c_clone", "clone_code", <<"cloning">>,
            <<"cloned", "clone_output">>, "c_install")

\* setup_sandbox, lines 135-157: npm install --legacy-peer-deps.
SetupInstall ==
    CodeRun("c_install", "install_code", <<"installing">>,
            <<"installed", "install_output">>, "c_dev")

\* setup_sandbox, lines 159-194: npm run dev in a background thread of the
\* sandbox, then time.sleep(10).
SetupDevServer ==
    CodeRun("c_dev", "dev_server_code", <<"starting_dev">>,
            <<"dev_started", "server_output", "waiting">>, "c_link")

\* Lines 45-66 and 91-100: sandbox.get_preview_link(3000) and the return.
CreatePreviewLink ==
    /\ script = "create" /\ pc = "c_link"
    /\ LET so == IF attempt = "primary" THEN stdout \o <<"getting_link">> ELSE stdout
       IN  \E out \in Outcomes :
             LET c == Call("get_preview_link", sandbox, "", Port, FALSE, out, 0, env)
             IN  IF out = "ok"
                 THEN \E u \in Urls, t \in Tokens :
                        LET info == [url |-> u, token |-> t]
                        IN  /\ calls' = Append(calls, c)
                            /\ links' = links \cup
                                 {[sb |-> sandbox, port |-> Port, url |-> u, token |-> t]}
                            /\ preview_info' = <<info>>
                            /\ stdout' = so \o <<"link_url", "link_token">>
                                 \o (IF attempt = "primary"
                                     THEN <<"success", "preview_url", "auth_token",
                                            "access_methods">>
                                     ELSE <<>>)
                            /\ ret' = <<ReturnRecord(sandbox, info)>>
                            /\ Exit(0)
                            /\ UNCHANGED <<sandbox, nextId>>
                 ELSE /\ CreateRaise(c)
                      /\ stdout' = CreateRaiseOut(so)
    /\ UNCHANGED <<script, argv, cwd0, env, fs, api_key, repo_url, attempt,
                   found_git, git_root, uncaught>>

\* CreateFallback without the assignment of line 81.
CreateFallbackKeepsTls ==
    /\ script = "create" /\ pc = "c_fallback"
    /\ stdout' = stdout \o <<"trying_alt">>
    /\ attempt' = "fallback"
    /\ pc' = "c_client"
    /\ UNCHANGED <<script, argv, cwd0, env, fs, api_key, repo_url, sandbox,
                   preview_info, found_git, git_root, ret, exit_code, uncaught,
                   calls, nextId, links>>

\* Lines 72-81: the fallback block is entered, an unverified SSL context is
\* built and PYTHONHTTPSVERIFY is set to '0'.
CreateFallback ==
    /\ script = "create" /\ pc = "c_fallback"
    /\ stdout' = stdout \o <<"trying_alt">>
    /\ env' = [env EXCEPT !.PYTHONHTTPSVERIFY = "0"]
    /\ attempt' = "fallback"
    /\ pc' = "c_client"
    /\ UNCHANGED <<script, argv, cwd0, fs, api_key, repo_url, sandbox,
                   preview_info, found_git, git_root, ret, exit_code, uncaught,
                   calls, nextId, links>>

-----------------------------------------------------------------------------
(* get-preview-link.py *)

\* Lines 6-11: the module sets the SDK's environment before importing it.
LookupImport ==
    /\ script = "lookup" /\ pc = "l_import"
    /\ env' = [env EXCEPT !.DAYTONA_API_KEY = HardcodedKey,
                          !.DAYTONA_API_URL = ApiUrl,
                          !.DAYTONA_TARGET = "us"]
    /\ pc' = "l_client"
    /\ UNCHANGED <<script, argv, cwd0, fs, api_key, repo_url, attempt, sandbox,
                   preview_info, found_git, git_root, ret, exit_code, uncaught,
                   stdout, calls, nextId, links>>

\* LookupRaise that reports the error and tries the call again.
LookupRaiseRetries(c, so) ==
    /\ calls' = Append(calls, c)
    /\ stdout' = so \o <<"error">>
    /\ UNCHANGED <<pc, exit_code, sandbox, preview_info, links>>

\* Lines 43-45: the handler of main()'s only try block.
LookupRaise(c, so) ==
    /\ calls' = Append(calls, c)
    /\ stdout' = so \o <<"error">>
    /\ Exit(1)
    /\ UNCHANGED <<sandbox, preview_info, links>>

\* Lines 14-20: Daytona().
LookupClient ==
    /\ script = "lookup" /\ pc = "l_client"
    /\ LET so == stdout \o <<"getting_info">>
       IN  \E out \in Outcomes :
             LET c == Call("Daytona", NoSandbox, "", 0, FALSE, out, 0, env)
             IN  IF out = "ok"
                 THEN /\ calls' = Append(calls, c)
                      /\ stdout' = so \o <<"connecting">>
                      /\ pc' = "l_find"
                      /\ UNCHANGED <<sandbox, preview_info, exit_code, links>>
                 ELSE LookupRaise(c, so)
    /\ UNCHANGED <<script, argv, cwd0, env, fs, api_key, repo_url, attempt,
                   found_git, git_root, ret, uncaught, nextId>>

\* Lines 23-24: daytona.find_one(sandbox_id).
LookupFindOne ==
    /\ script = "lookup" /\ pc = "l_find"
    /\ \E out \in Outcomes :
         LET c == Call("find_one", ExistingSandboxId, "", 0, FALSE, out, 0, env)
         IN  IF out = "ok"
             THEN /\ calls' = Append(calls, c)
                  /\ sandbox' = ExistingSandboxId
                  /\ stdout' = stdout \o <<"getting_link">>
                  /\ pc' = "l_link"
                  /\ UNCHANGED <<preview_info, exit_code, links>>
             ELSE LookupRaise(c, stdout)
    /\ UNCHANGED <<script, argv, cwd0, env, fs, api_key, repo_url, attempt,
                   found_git, git_root, ret, uncaught, nextId>>

\* Lines 26-41: sandbox.get_preview_link(3000), the report, and the end of
\* main(), which returns nothing.
LookupPreviewLink ==
    /\ script = "lookup" /\ pc = "l_link"
    /\ \E out \in Outcomes :
         LET c == Call("get_preview_link", sandbox, "", Port, FALSE, out, 0, env)
         IN  IF out = "ok"
             THEN \E u \in Urls, t \in Tokens :
                    /\ calls' = Append(calls, c)
                    /\ links' = links \cup
                         {[sb |-> sandbox, port |-> Port, url |-> u, token |-> t]}
                    /\ preview_info' = <<[url |-> u, token |-> t]>>
                    /\ stdout' = stdout \o <<"link_url", "link_token", "success",
                                             "preview_url", "auth_token",
                                             "access_methods">>
                    /\ Exit(0)
                    /\ UNCHANGED <<sandbox>>
             ELSE LookupRaise(c, stdout)
    /\ UNCHANGED <<script, argv, cwd0, env, fs, api_key, repo_url, attempt,
                   found_git, git_root, ret, uncaught, nextId>>

-----------------------------------------------------------------------------
(* scaffold-files/daytona-deploy.py *)

\* os.path.dirname on a directory given by its depth below the file system
\* root: the root is its own parent.
Parent(dir) == IF dir = 0 THEN 0 ELSE dir - 1

\* SearchGit that walks up to the file system root, whatever the distance.
RECURSIVE SearchGitUnbounded(_, _, _)
SearchGitUnbounded(git, dir, i) ==
    IF dir \in git THEN [found |-> TRUE, root |-> dir]
    ELSE IF Parent(dir) = dir THEN [found |-> FALSE, root |-> dir]
    ELSE SearchGitUnbounded(git, Parent(dir), i + 1)

\* Lines 103-110: the loop `for i in range(5)`, from iteration i on, with
\* git_root = dir.  git is the set of directories that hold a '.git' entry.
RECURSIVE SearchGit(_, _, _)
SearchGit(git, dir, i) ==
    IF i >= ParentLevels THEN [found |-> FALSE, root |-> dir]
    ELSE IF dir \in git THEN [found |-> TRUE, root |-> dir]
    ELSE IF Parent(dir) = dir THEN [found |-> FALSE, root |-> dir]
    ELSE SearchGit(git, Parent(dir), i + 1)

\* Lines 10-25: the SDK import, with the pip / pip3 installation when it is
\* missing.
DeployImport ==
    /\ script = "deploy" /\ pc = "d_import"
    /\ \E imported \in BOOLEAN, pip \in ExitCodes, pip3 \in ExitCodes,
          reimported \in BOOLEAN :
         IF imported
         THEN /\ stdout' = stdout
              /\ pc' = "d_main"
              /\ UNCHANGED exit_code
         ELSE IF pip # 0 /\ pip3 # 0
         THEN /\ stdout' = stdout \o <<"installing_sdk", "trying_pip3",
                                       "sdk_install_failed">>
              /\ Exit(1)
         ELSE IF ~reimported
         THEN /\ stdout' = stdout \o <<"installing_sdk">>
                     \o (IF pip # 0 THEN <<"trying_pip3">> ELSE <<>>)
                     \o <<"sdk_import_failed">>
              /\ Exit(1)
         ELSE /\ stdout' = stdout \o <<"installing_sdk">>
                     \o (IF pip # 0 THEN <<"trying_pip3">> ELSE <<>>)
              /\ pc' = "d_main"
              /\ UNCHANGED exit_code
    /\ UNCHANGED <<script, argv, cwd0, env, fs, api_key, repo_url, attempt,
                   sandbox, preview_info, found_git, git_root, ret, uncaught,
                   calls, nextId, links>>

\* Lines 137-154: the credential, the missing-credential exit and the choice
\* between the two deploy paths.
DeployMain ==
    /\ script = "deploy" /\ pc = "d_main"
    /\ LET k == IF ~Falsy(env.DAYTONA_API_KEY) THEN env.DAYTONA_API_KEY
                ELSE IF Len(argv) > 0 THEN argv[1] ELSE Unset
       IN  /\ api_key' = k
           /\ IF Falsy(k)
              THEN /\ stdout' = stdout \o <<"missing_key", "usage", "usage_env">>
                   /\ Exit(1)
                   /\ UNCHANGED repo_url
              ELSE /\ stdout' = stdout \o <<"banner", "rule">>
                   /\ UNCHANGED exit_code
                   /\ IF Len(argv) > 0
                      THEN /\ repo_url' = argv[1]
                           /\ pc' = "d_client"
                      ELSE /\ pc' = "d_cwd"
                           /\ UNCHANGED repo_url
    /\ UNCHANGED <<script, argv, cwd0, env, fs, attempt, sandbox, preview_info,
                   found_git, git_root, ret, uncaught, calls, nextId, links>>

\* create_from_current_directory, lines 99-118: the search for the
\* repository root and the chdir into it.
CreateFromCurrentDirectory ==
    /\ script = "deploy" /\ pc = "d_cwd"
    /\ LET r == SearchGit(fs.git, fs.cwd, 0)
       IN  /\ found_git' = r.found
           /\ git_root' = r.root
           /\ IF ~r.found
              THEN /\ stdout' = stdout \o <<"not_git", "run_from_root">>
                   /\ ret' = <<>>
                   /\ pc' = "d_finish"
                   /\ UNCHANGED fs
              ELSE /\ stdout' = stdout \o <<"found_git">>
                   /\ fs' = [fs EXCEPT !.cwd = r.root]
                   /\ pc' = "d_remote"
                   /\ UNCHANGED ret
    /\ UNCHANGED <<script, argv, cwd0, env, api_key, repo_url, attempt, sandbox,
                   preview_info, exit_code, uncaught, calls, nextId, links>>

\* create_from_current_directory, lines 121-134: `git remote get-url origin`.
\* The URL is git's output with surrounding white space stripped.
GitRemote ==
    /\ script = "deploy" /\ pc = "d_remote"
    /\ \/ \E u \in RemoteUrls :
            /\ repo_url' = u
            /\ stdout' = stdout \o <<"detected_repo">>
            /\ pc' = "d_client"
            /\ UNCHANGED ret
       \/ /\ stdout' = stdout \o <<"no_remote">>
          /\ ret' = <<>>
          /\ pc' = "d_finish"
          /\ UNCHANGED repo_url
       \/ /\ stdout' = stdout \o <<"remote_error">>
          /\ ret' = <<>>
          /\ pc' = "d_finish"
          /\ UNCHANGED repo_url
    /\ UNCHANGED <<script, argv, cwd0, env, fs, api_key, attempt, sandbox,
                   preview_info, found_git, git_root, exit_code, uncaught,
                   calls, nextId, links>>

\* deploy_scaffold_to_daytona, lines 91-93: the handler of its try block.
DeployRaise(c, so) ==
    /\ calls' = Append(calls, c)
    /\ stdout' = so \o <<"deploy_error">>
    /\ ret' = <<>>
    /\ pc' = "d_finish"
    /\ UNCHANGED <<sandbox, nextId, exit_code, uncaught>>

\* deploy_scaffold_to_daytona, lines 31-32: Daytona(), made before the try
\* block is entered.  An exception here leaves the function and, uncaught by
\* the caller, ends the process with a traceback and status 1.
DeployClient ==
    /\ script = "deploy" /\ pc = "d_client"
    /\ LET e == [env EXCEPT !.DAYTONA_API_KEY = api_key]
       IN  /\ env' = e
           /\ \E out \in Outcomes :
                LET c == Call("Daytona", NoSandbox, "", 0, FALSE, out, 0, e)
                IN  /\ calls' = Append(calls, c)
                    /\ IF out = "ok"
                       THEN /\ pc' = "d_create"
                            /\ UNCHANGED <<stdout, exit_code, uncaught>>
                       ELSE /\ uncaught' = TRUE
                            /\ stdout' = stdout
                            /\ Exit(1)
    /\ UNCHANGED <<script, argv, cwd0, fs, api_key, repo_url, attempt, sandbox,
                   preview_info, found_git, git_root, ret, nextId, links>>

\* deploy_scaffold_to_daytona, lines 35-58: daytona.create(params).
DeploySandbox ==
    /\ script = "deploy" /\ pc = "d_create"
    /\ LET so == stdout \o <<"creating">>
       IN  \E out \in Outcomes :
             LET c == Call("create", NoSandbox, repo_url, 0, FALSE, out, 0, env)
             IN  IF out = "ok"
                 THEN /\ calls' = Append(calls, [c EXCEPT !.sb = nextId])
                      /\ sandbox' = nextId
                      /\ nextId' = nextId + 1
                      /\ stdout' = so \o <<"created", "sandbox_id", "sandbox_url">>
                      /\ pc' = "d_root"
                      /\ UNCHANGED <<ret, exit_code, uncaught>>
                 ELSE DeployRaise(c, so)
    /\ UNCHANGED <<script, argv, cwd0, env, fs, api_key, repo_url, attempt,
                   preview_info, found_git, git_root, links>>

\* deploy_scaffold_to_daytona, lines 60-62: sandbox.get_user_root_dir().
DeployRootDir ==
    /\ script = "deploy" /\ pc = "d_root"
    /\ \E out \in Outcomes :
         LET c == Call("get_user_root_dir", sandbox, "", 0, FALSE, out, 0, env)
         IN  IF out = "ok"
             THEN /\ calls' = Append(calls, c)
                  /\ stdout' = stdout \o <<"root_dir">>
                  /\ pc' = "d_install"
                  /\ UNCHANGED <<sandbox, nextId, ret, exit_code, uncaught>>
             ELSE DeployRaise(c, stdout)
    /\ UNCHANGED <<script, argv, cwd0, env, fs, api_key, repo_url, attempt,
                   preview_info, found_git, git_root, links>>

\* Run that gives up on a non-zero exit code.
RunAbortsOnFailure(at, cmd, before, good, bad, next) ==
    /\ script = "deploy" /\ pc = at
    /\ LET so == stdout \o before
       IN  \E out \in Outcomes, rc \in ExitCodes :
             LET c == Call("run", sandbox, cmd, 0, FALSE, out,
                           IF out = "ok" THEN rc ELSE 0, env)
             IN  /\ calls' = Append(calls, c)
                 /\ stdout' = so \o (IF out = "raise" THEN <<"deploy_error">>
                                     ELSE IF rc = 0 THEN good ELSE bad)
                 /\ IF out = "ok" /\ rc = 0
                    THEN pc' = next /\ UNCHANGED ret
                    ELSE pc' = "d_finish" /\ ret' = <<>>
                 /\ UNCHANGED <<sandbox, nextId, exit_code, uncaught>>
    /\ UNCHANGED <<script, argv, cwd0, env, fs, api_key, repo_url, attempt,
                   preview_info, found_git, git_root, links>>

\* One checked sandbox.process.run(cmd): the call, then the message chosen by
\* the exit code it reports; the function goes on to `next` either way.
Run(at, cmd, before, good, bad, next) ==
    /\ script = "deploy" /\ pc = at
    /\ LET so == stdout \o before
       IN  \E out \in Outcomes, rc \in ExitCodes :
             LET c == Call("run", sandbox, cmd, 0, FALSE, out,
                           IF out = "ok" THEN rc ELSE 0, env)
             IN  IF out = "ok"
                 THEN /\ calls' = Append(calls, c)
                      /\ stdout' = so \o (IF rc = 0 THEN good ELSE bad)
                      /\ pc' = next
                      /\ UNCHANGED <<sandbox, nextId, ret, exit_code, uncaught>>
                 ELSE DeployRaise(c, so)
    /\ UNCHANGED <<script, argv, cwd0, env, fs, api_key, repo_url, attempt,
                   preview_info, found_git, git_root, links>>

\* deploy_scaffold_to_daytona, lines 64-70: npm install.
DeployInstall ==
    Run("d_install", "npm install", <<"installing">>, <<"installed">>,
        <<"install_failed">>, "d_build")

\* deploy_scaffold_to_daytona, lines 72-78: npm run build.
DeployBuild ==
    Run("d_build", "npm run build", <<"building">>, <<"built">>,
        <<"build_failed">>, "d_start")

\* deploy_scaffold_to_daytona, lines 80-89: npm run dev in the background, and
\* the return of the sandbox.
DeployStart ==
    /\ script = "deploy" /\ pc = "d_start"
    /\ LET so == stdout \o <<"starting_dev">>
       IN  \E out \in Outcomes :
             LET c == Call("run", sandbox, "npm run dev", 0, TRUE, out, 0, env)
             IN  IF out = "ok"
                 THEN /\ calls' = Append(calls, c)
                      /\ stdout' = so \o <<"deployed", "access", "sandbox_id">>
                      /\ ret' = <<sandbox>>
                      /\ pc' = "d_finish"
                      /\ UNCHANGED <<sandbox, nextId, exit_code, uncaught>>
                 ELSE DeployRaise(c, so)
    /\ UNCHANGED <<script, argv, cwd0, env, fs, api_key, repo_url, attempt,
                   preview_info, found_git, git_root, links>>

\* Lines 156-161: the caller's report; the script then ends.
DeployFinish ==
    /\ script = "deploy" /\ pc = "d_finish"
    /\ stdout' = IF ret # <<>> THEN stdout \o <<"next_steps">> ELSE stdout
    /\ Exit(0)
    /\ UNCHANGED <<script, argv, cwd0, env, fs, api_key, repo_url, attempt,
                   sandbox, preview_info, found_git, git_root, ret, uncaught,
                   calls, nextId, links>>

-----------------------------------------------------------------------------
(* The process *)

\* The file systems a run may start in: a working directory at some depth
\* below the root, and '.git' entries in any of it and its ancestors.
FileSystems ==
    UNION {[cwd : {d}, git : SUBSET (0..d)] : d \in 0..MaxDepth}

Init ==
    /\ script \in {"create", "lookup", "deploy"}
    /\ argv \in IF script = "lookup" THEN {<<>>}
                ELSE {<<>>} \cup {<<a>> : a \in ArgValues}
    /\ env \in {InitialEnv(k) : k \in EnvKeyValues}
    /\ fs \in IF script = "deploy" THEN FileSystems
              ELSE {[cwd |-> 0, git |-> {}]}
    /\ cwd0 = fs.cwd
    /\ pc = CASE script = "create" -> "c_main"
              [] script = "lookup" -> "l_import"
              [] script = "deploy" -> "d_import"
    /\ api_key = Unset
    /\ repo_url = Unset
    /\ attempt = "primary"
    /\ sandbox = NoSandbox
    /\ preview_info = <<>>
    /\ found_git = FALSE
    /\ git_root = fs.cwd
    /\ ret = <<>>
    /\ exit_code = NotExited
    /\ uncaught = FALSE
    /\ stdout = <<>>
    /\ calls = <<>>
    /\ nextId = 1
    /\ links = {}

Next ==
    \/ CreateMain
    \/ CreateClient
    \/ CreateSandbox
    \/ SetupClone
    \/ SetupInstall
    \/ SetupDevServer
    \/ CreatePreviewLink
    \/ CreateFallback
    \/ LookupImport
    \/ LookupClient
    \/ LookupFindOne
    \/ LookupPreviewLink
    \/ DeployImport
    \/ DeployMain
    \/ CreateFromCurrentDirectory
    \/ GitRemote
    \/ DeployClient
    \/ DeploySandbox
    \/ DeployRootDir
    \/ DeployInstall
    \/ DeployBuild
    \/ DeployStart
    \/ DeployFinish

Spec == Init /\ [][Next]_vars

-----------------------------------------------------------------------------
(* Vocabulary of the properties *)

\* Some provider call of the run has raised.
Raised == \E i \in DOMAIN calls : calls[i].out = "raise"

\* Position of the first call that raised.
FirstRaise == CHOOSE i \in DOMAIN calls :
                 /\ calls[i].out = "raise"
                 /\ \A j \in 1..(i - 1) : calls[j].out = "ok"

\* Create script: the calls of the primary try block and of the fallback.
PrimaryCalls == IF Raised THEN SubSeq(calls, 1, FirstRaise) ELSE calls

FallbackCalls == IF Raised THEN SubSeq(calls, FirstRaise + 1, Len(calls)) ELSE <<>>

\* The calls of the run made with method op.
CallsOf(op) == SelectSeq(calls, LAMBDA c : c.op = op)

\* How many times tag t was written to the console.
Printed(t) == Len(SelectSeq(stdout, LAMBDA x : x = t))

\* The sequence create -> setup_sandbox -> get_preview_link(3000), as
\* (method, argument, port) triples.
CreateSequence ==
    << <<"Daytona", "", 0>>, <<"create", "", 0>>,
       <<"code_run", "clone_code", 0>>, <<"code_run", "install_code", 0>>,
       <<"code_run", "dev_server_code", 0>>, <<"get_preview_link", "", Port>> >>

\* cs is a run of CreateSequence from its start, stopped only by a call that
\* raised, with every sandbox call made on the sandbox created in cs itself.
FollowsCreateSequence(cs) ==
    /\ Len(cs) <= Len(CreateSequence)
    /\ \A i \in DOMAIN cs :
         /\ <<cs[i].op, cs[i].arg, cs[i].port>> = CreateSequence[i]
         /\ i < Len(cs) => cs[i].out = "ok"
         /\ i > 2 => cs[i].sb = cs[2].sb
    /\ Len(cs) >= 2 /\ cs[2].out = "ok" => cs[2].sb # NoSandbox

\* cs ran CreateSequence to its end without an exception.
Completed(cs) ==
    /\ Len(cs) = Len(CreateSequence)
    /\ \A i \in DOMAIN cs : cs[i].out = "ok"

\* The k-th ancestor of directory dir.
RECURSIVE Ancestor(_, _)
Ancestor(dir, k) == IF k = 0 THEN dir ELSE Ancestor(Parent(dir), k - 1)

\* The process has no API key: neither argument nor environment gives one.
NoKeyAvailable ==
    /\ Len(argv) > 0 => argv[1] = ""
    /\ env.DAYTONA_API_KEY \in {Unset, ""}

-----------------------------------------------------------------------------
(* Properties *)

\* C1: create script, run with an API key.  An exception in the primary
\* attempt starts the fallback exactly once; the fallback sets
\* PYTHONHTTPSVERIFY to '0' before it constructs its client and repeats
\* create -> setup_sandbox -> get_preview_link(3000) on a sandbox of its own;
\* the fallback's outcome alone decides the exit (record and status 0 if
\* every step succeeds, status 1 if one raises).  If the primary attempt
\* succeeds the fallback is never started and the run has one create call.
C1_FallbackOnce ==
    (script = "create" /\ ~(api_key \in {Unset, ""})) =>
        /\ Printed("trying_alt") <= 1
        /\ Printed("trying_alt") = 1 <=> (Raised /\ pc # "c_fallback")
        /\ attempt = "fallback" <=> Printed("trying_alt") = 1
        /\ FollowsCreateSequence(PrimaryCalls)
        /\ FollowsCreateSequence(FallbackCalls)
        /\ \A i \in DOMAIN FallbackCalls :
             /\ FallbackCalls[i].verify = "0"
             /\ i > 1 /\ FallbackCalls[2].out = "ok" =>
                  /\ FallbackCalls[i].sb # NoSandbox
                  /\ Len(PrimaryCalls) > 1 =>
                       FallbackCalls[i].sb # PrimaryCalls[2].sb
        /\ ~Raised => /\ Printed("trying_alt") = 0
                      /\ \A i \in DOMAIN calls : calls[i].verify = Unset
        /\ pc = "done" =>
             IF ~Raised
             THEN /\ Completed(calls)
                  /\ Len(CallsOf("create")) = 1
                  /\ exit_code = 0 /\ ret # <<>>
             ELSE IF Completed(FallbackCalls)
             THEN exit_code = 0 /\ ret # <<>>
             ELSE /\ FallbackCalls # <<>>
                  /\ FallbackCalls[Len(FallbackCalls)].out = "raise"
                  /\ exit_code = 1 /\ ret = <<>>

\* C1 witness: the primary attempt raised in get_preview_link, the fallback
\* ran once on a second sandbox and its record was returned.
C1_Witness ==
    /\ script = "create" /\ pc = "done"
    /\ Raised /\ Len(PrimaryCalls) = 6
    /\ Completed(FallbackCalls)
    /\ exit_code = 0 /\ ret # <<>>

\* C2: create and deploy scripts.  With no API key from the argument or from
\* DAYTONA_API_KEY the process exits with status 1 and makes no provider
\* call at any point of the run.
C2_NoKeyNoCalls ==
    (script \in {"create", "deploy"} /\ NoKeyAvailable) =>
        /\ calls = <<>>
        /\ pc \in {"c_main", "d_import", "d_main", "done"}
        /\ pc = "done" => exit_code = 1

\* C2 witness: the deploy script given an empty argument and an empty
\* DAYTONA_API_KEY has reported the missing key and exited.
C2_Witness ==
    /\ script = "deploy" /\ pc = "done"
    /\ argv = <<"">> /\ env.DAYTONA_API_KEY = ""
    /\ Printed("missing_key") = 1
    /\ exit_code = 1

\* C2 witness for the create script is the same case there.
C2_WitnessCreate ==
    /\ script = "create" /\ pc = "done"
    /\ argv = <<>> /\ env.DAYTONA_API_KEY = Unset
    /\ exit_code = 1


\* C3 (as claimed): deploy script.  Whenever a provider call fails an error
\* message is printed (by the handler, or as the traceback of an exception
\* that was not caught) and the process ends with status 1; status 0 occurs
\* only on runs in which a sandbox was created and returned.
C3_FailureExitsOne ==
    (script = "deploy" /\ pc = "done") =>
        /\ Raised => /\ Printed("deploy_error") = 1 \/ uncaught
                     /\ exit_code = 1
        /\ exit_code = 0 => /\ ret # <<>>
                            /\ Len(CallsOf("create")) = 1
                            /\ ret[1] = CallsOf("create")[1].sb

\* C4 (as claimed): deploy script.  A positional argument that is used as the
\* API key is not also handed to the provider as the repository URL: the
\* URL of the create call is then the one read from the current directory.
C4_ArgumentHasOneRole ==
    (script = "deploy" /\ Len(argv) > 0 /\ api_key = argv[1]) =>
        \A i \in DOMAIN calls :
            calls[i].op = "create" =>
                /\ calls[i].arg # api_key
                /\ calls[i].arg \in RemoteUrls

\* The process.run calls of the run.
Runs == CallsOf("run")

\* The three remote commands of deploy_scaffold_to_daytona, as (command,
\* background) pairs.
DeployCommands ==
    << <<"npm install", FALSE>>, <<"npm run build", FALSE>>,
       <<"npm run dev", TRUE>> >>

\* deploy_scaffold_to_daytona has been entered and left.
DeployReturned ==
    /\ script = "deploy" /\ pc \in {"d_finish", "done"}
    /\ calls # <<>> /\ ~uncaught

\* The sandbox creation of the deploy script has succeeded.
DeployCreated ==
    /\ script = "deploy"
    /\ \E i \in DOMAIN calls : calls[i].op = "create" /\ calls[i].out = "ok"

\* C5 (as claimed): once sandbox creation has succeeded the three commands
\* are each issued exactly once, in order, and the function returns the
\* sandbox.
C5_AllCommandsAfterCreate ==
    (DeployCreated /\ DeployReturned) =>
        /\ Len(Runs) = 3
        /\ \A i \in DOMAIN Runs : <<Runs[i].arg, Runs[i].bg>> = DeployCommands[i]
        /\ ret = <<sandbox>>

\* C5 (amended): the commands issued are always an initial part of npm
\* install, npm run build, npm run dev (background), each at most once, on
\* the created sandbox, each after the previous one returned; a non-zero
\* exit code of install or build is printed as a failure and the next
\* command is still issued; when no provider call raises, all three are
\* issued and the sandbox is returned, and when one raises the function
\* returns None.
C5_CommandsInOrder ==
    script = "deploy" =>
        /\ Len(Runs) <= 3
        /\ \A i \in DOMAIN Runs :
             /\ <<Runs[i].arg, Runs[i].bg>> = DeployCommands[i]
             /\ Runs[i].sb = sandbox /\ sandbox # NoSandbox
             /\ i < Len(Runs) => Runs[i].out = "ok"
        /\ Runs # <<>> => DeployCreated
        /\ (Len(Runs) >= 1 /\ Runs[1].out = "ok") =>
             /\ pc = "d_build" \/ Len(Runs) >= 2
             /\ Printed("install_failed") = (IF Runs[1].rc # 0 THEN 1 ELSE 0)
             /\ Printed("installed") = (IF Runs[1].rc = 0 THEN 1 ELSE 0)
        /\ (Len(Runs) >= 2 /\ Runs[2].out = "ok") =>
             /\ pc = "d_start" \/ Len(Runs) = 3
             /\ Printed("build_failed") = (IF Runs[2].rc # 0 THEN 1 ELSE 0)
             /\ Printed("built") = (IF Runs[2].rc = 0 THEN 1 ELSE 0)
        /\ (DeployCreated /\ DeployReturned) =>
             IF Raised
             THEN ret = <<>>
             ELSE Len(Runs) = 3 /\ ret = <<sandbox>>

\* C5 witness: install and build both reported a non-zero exit code, all
\* three commands were issued and the sandbox was returned.
C5_Witness ==
    /\ script = "deploy" /\ pc = "done"
    /\ Len(Runs) = 3
    /\ Runs[1].rc = 1 /\ Runs[2].rc = 1
    /\ Printed("install_failed") = 1 /\ Printed("build_failed") = 1
    /\ ret = <<sandbox>> /\ sandbox # NoSandbox

\* The deploy script took the directory-based path (no positional argument,
\* an API key present) and create_from_current_directory has searched.
Searched ==
    /\ script = "deploy" /\ Len(argv) = 0
    /\ ~(api_key \in {Unset, ""})
    /\ pc \notin {"d_import", "d_main", "d_cwd"}

\* Some directory among the start directory and its first n ancestors holds
\* a '.git' entry.
MarkerWithin(n) == \E k \in 0..n : Ancestor(cwd0, k) \in fs.git

\* The nearest directory at or above the start directory that holds '.git'.
NearestMarker ==
    Ancestor(cwd0, CHOOSE k \in 0..MaxDepth :
                      /\ Ancestor(cwd0, k) \in fs.git
                      /\ \A j \in 0..(k - 1) : Ancestor(cwd0, j) \notin fs.git)

\* C6: create_from_current_directory.  If neither the working directory nor
\* any of its ancestors up to five levels up holds '.git', the function
\* returns None and no provider call is made.
C6_NoMarkerNoCalls ==
    (script = "deploy" /\ Len(argv) = 0 /\ ~MarkerWithin(ParentLevels)) =>
        /\ calls = <<>>
        /\ pc \in {"d_import", "d_main", "d_cwd", "d_finish", "done"}
        /\ Searched => /\ ~found_git
                       /\ ret = <<>>
                       /\ Printed("not_git") = 1
                       /\ fs.cwd = cwd0

\* C6 witness: the only '.git' is six levels up, the search is over and
\* the function has reported failure.
C6_Witness ==
    /\ Searched /\ pc = "d_finish"
    /\ cwd0 = 6 /\ fs.git = {0}
    /\ ret = <<>> /\ Printed("not_git") = 1

\* C7: create script.  A returned record has exactly the fields sandbox_id,
\* url and token; sandbox_id is the sandbox created in the attempt that
\* succeeded and url and token are what that sandbox's get_preview_link(3000)
\* returned.
C7_RecordFromProvider ==
    (script = "create" /\ ret # <<>>) =>
        LET rec  == ret[1]
            last == calls[Len(calls)]
            made == CallsOf("create")
        IN  /\ DOMAIN rec = {"sandbox_id", "url", "token"}
            /\ rec.sandbox_id = made[Len(made)].sb
            /\ made[Len(made)].out = "ok"
            /\ Raised => /\ Len(made) >= 1
                         /\ \A i \in 1..FirstRaise :
                              calls[i].op = "create" => calls[i].sb # rec.sandbox_id
            /\ last.op = "get_preview_link" /\ last.out = "ok"
            /\ last.sb = rec.sandbox_id /\ last.port = Port
            /\ links = {[sb |-> rec.sandbox_id, port |-> Port,
                         url |-> rec.url, token |-> rec.token]}

\* C7 witness: a record returned by the fallback, after the primary attempt
\* had created a sandbox of its own.
C7_Witness ==
    /\ script = "create" /\ ret # <<>>
    /\ Raised /\ Len(CallsOf("create")) = 2
    /\ CallsOf("create")[1].out = "ok"
    /\ ret[1].sandbox_id = CallsOf("create")[2].sb
    /\ ret[1].url # ret[1].token

\* C8: lookup script.  The preview link is requested at most once and only
\* for port 3000: once when find_one succeeds, not at all when it raises.
\* An exception of Daytona(), find_one or get_preview_link is printed and the
\* process exits with status 1, no call being retried.
C8_LookupOnce ==
    script = "lookup" =>
        /\ Len(CallsOf("Daytona")) <= 1
        /\ Len(CallsOf("find_one")) <= 1
        /\ Len(CallsOf("get_preview_link")) <= 1
        /\ \A i \in DOMAIN calls :
             /\ calls[i].op \in {"Daytona", "find_one", "get_preview_link"}
             /\ calls[i].op = "get_preview_link" =>
                  /\ calls[i].port = Port
                  /\ calls[i].sb = ExistingSandboxId
                  /\ \E j \in 1..(i - 1) :
                       calls[j].op = "find_one" /\ calls[j].out = "ok"
        /\ Raised => /\ FirstRaise = Len(calls)
                     /\ pc = "done" /\ exit_code = 1
                     /\ Printed("error") = 1
        /\ pc = "done" =>
             /\ Len(CallsOf("get_preview_link")) = 1
                  <=> (\E j \in DOMAIN calls :
                         calls[j].op = "find_one" /\ calls[j].out = "ok")
             /\ ~Raised => exit_code = 0 /\ Printed("error") = 0

\* C8 witness: find_one succeeded, the one get_preview_link(3000) raised and
\* the process exited with status 1.
C8_Witness ==
    /\ script = "lookup" /\ pc = "done"
    /\ Len(calls) = 3
    /\ calls[2].op = "find_one" /\ calls[2].out = "ok"
    /\ calls[3].op = "get_preview_link" /\ calls[3].out = "raise"
    /\ exit_code = 1

\* C9 (as claimed): create_from_current_directory.  If '.git' exists in the
\* working directory or in one of its first five ancestors, the search finds
\* the nearest such directory and changes into it.
C9_FindsWithinFive ==
    (Searched /\ MarkerWithin(ParentLevels)) =>
        /\ found_git
        /\ git_root = NearestMarker
        /\ fs.cwd = git_root
        /\ Printed("not_git") = 0

\* C10 (as claimed): deploy_scaffold_to_daytona never raises to its caller:
\* every exception of a provider call it makes, client construction
\* included, is printed and turned into a None result.
C10_NeverRaises ==
    script = "deploy" =>
        /\ ~uncaught
        /\ (Raised /\ pc \in {"d_finish", "done"}) =>
             ret = <<>> /\ Printed("deploy_error") = 1

====
